---- MODULE Spec2Model ----
(***************************************************************************)
(* RHACS CVE report generators: generate-cves-by-image.py (image pipeline) *)
(* and generate-cves-by-nodes.py (node pipeline).                          *)
(*                                                                         *)
(* Python strings that the code inspects character by character (cluster   *)
(* labels, operating-system identifiers, UBI names) are sequences of       *)
(* one-character strings; the empty Python string is <<>>.  Identifiers    *)
(* the code only compares for equality (cluster ids, namespaces, image     *)
(* names, CVE ids) are TLA+ strings.                                       *)
(***************************************************************************)
EXTENDS Integers, Sequences, FiniteSets, TLC

VARIABLES
    \* ---- image pipeline (generate-cves-by-image.py, main) ----
    pc,             \* position of main
    cvesByCluster,  \* dict clusterId -> ClusterDetail, as its insertion-ordered item list
    clusterName,    \* local clusterName: [bound, val]
    responseJson,   \* local responseJson, reused for the three endpoints
    current,        \* clusterId and namespace of the deployment being inspected
    containers,     \* containers of the current deployment still to inspect
    csvFile,        \* the output file of the image pipeline
    inspected,      \* currentDeploymentIndex
    turns,          \* history: turns of the container loop so far in the run
    seen,           \* history: what the last container turn read and merged
    \* ---- node pipeline (generate-cves-by-nodes.py, main) ----
    npc,            \* position of main
    nclusters,      \* clusters of the /clusters response still to process
    nlabel,         \* locals clusterName, clusterEnvironment, clusterDescriptor
    nnodes,         \* nodes of the /nodes/{clusterId} response still to process
    nnode,          \* local nodeName
    ncves,          \* nodeVulnerabilities of the GraphQL response still to write
    nodeCsv,        \* the output file of the node pipeline
    ncall,          \* history: the last API call and what it did
    returned,       \* history: per node the GraphQL query answered, the CVEs it returned
    nused,          \* history: nodes listed and CVEs returned so far in the run
    \* ---- image detail and UBI resolution (image pipeline, per container) ----
    fetched,        \* what GET /images/{id} did for the last image
    ubi,            \* locals os, ubiName, ubiVersion, ubiRelease after the try block
    \* ---- cluster-label parser on its own ----
    raw,            \* a raw cluster string
    parsed          \* what the parser made of it

imageVars == <<pc, cvesByCluster, clusterName, responseJson, current, containers,
               csvFile, inspected, turns, seen>>
ubiVars   == <<fetched, ubi>>
nodeVars  == <<npc, nclusters, nlabel, nnodes, nnode, ncves, nodeCsv, ncall, returned, nused>>
parseVars == <<raw, parsed>>
vars == <<imageVars, ubiVars, nodeVars, parseVars>>

\* ------------------------------------------------------------------ bounds
MaxLen == 6          \* longest raw cluster string of the parser specification
MaxDeployments == 2  \* deployments inspected in a run of the image pipeline
MaxInspections == 2  \* containers inspected in a run of the image pipeline
MaxLayers == 2       \* layers of an image
MaxClusters == 2     \* clusters of a run of the node pipeline
MaxNodes == 2        \* nodes listed in a run of the node pipeline
MaxReturned == 3     \* CVEs returned in a run of the node pipeline

\* ------------------------------------------------------------------ helpers
Max(S) == CHOOSE x \in S : \A y \in S : y <= x
Min(S) == CHOOSE x \in S : \A y \in S : x <= y

\* All sequences over S of length at most n.
SeqsUpTo(S, n) == UNION {[1..k -> S] : k \in 0..n}

\* str.startswith
StartsWith(s, prefix) ==
    /\ Len(s) >= Len(prefix)
    /\ SubSeq(s, 1, Len(prefix)) = prefix

\* ------------------------------------------------------------------ characters
NL == "\n"
\* [^\W_] : letters and digits
AlnumChars == {"a", "1"}
\* [\W_] : everything else, the underscore and the line break included
SepChars == {"-", "_", NL}
Chars == AlnumChars \cup SepChars

IsAlnum(c) == c \in AlnumChars
IsSep(c) == c \notin AlnumChars
\* "." without re.DOTALL matches any character but a line break
IsDot(c) == c # NL

\* ------------------------------------------------------------------ regular expressions
\* A pattern is the program a backtracking matcher runs: the first alternative
\* of a split is tried first (greedy), so the first match found is the one
\* re.search returns.  Positions are 1..Len(s)+1.
Char(class)  == [op |-> "char",  class |-> class, x |-> 0, y |-> 0]
Split(x, y)  == [op |-> "split", class |-> "",    x |-> x, y |-> y]
Jmp(x)       == [op |-> "jmp",   class |-> "",    x |-> x, y |-> 0]
Save(slot)   == [op |-> "save",  class |-> "",    x |-> slot, y |-> 0]
Eol          == [op |-> "eol",   class |-> "",    x |-> 0, y |-> 0]
Matched      == [op |-> "match", class |-> "",    x |-> 0, y |-> 0]

InClass(class, c) ==
    CASE class = "alnum" -> IsAlnum(c)
      [] class = "sep"   -> IsSep(c)
      [] class = "dot"   -> IsDot(c)

\* "$" without re.MULTILINE: at the end, or just before a final line break
AtEnd(s, p) ==
    \/ p = Len(s) + 1
    \/ p = Len(s) /\ s[p] = NL

NoCaptures == [slot \in 1..6 |-> 0]
Failed == [ok |-> FALSE, caps |-> NoCaptures]

RECURSIVE Run(_, _, _, _, _)
Run(prog, s, at, p, caps) ==
    LET ins == prog[at]
    IN  CASE ins.op = "char" ->
                IF p <= Len(s) /\ InClass(ins.class, s[p])
                THEN Run(prog, s, at + 1, p + 1, caps)
                ELSE Failed
          [] ins.op = "split" ->
                LET first == Run(prog, s, ins.x, p, caps)
                IN  IF first.ok THEN first ELSE Run(prog, s, ins.y, p, caps)
          [] ins.op = "jmp" -> Run(prog, s, ins.x, p, caps)
          [] ins.op = "save" -> Run(prog, s, at + 1, p, [caps EXCEPT ![ins.x] = p])
          [] ins.op = "eol" ->
                IF AtEnd(s, p) THEN Run(prog, s, at + 1, p, caps) ELSE Failed
          [] ins.op = "match" -> [ok |-> TRUE, caps |-> caps]

\* re.search: the match at the leftmost start position that has one
RECURSIVE SearchFrom(_, _, _)
SearchFrom(prog, s, i) ==
    IF i > Len(s) + 1 THEN Failed
    ELSE LET here == Run(prog, s, 1, i, NoCaptures)
         IN  IF here.ok THEN here ELSE SearchFrom(prog, s, i + 1)

\* regexResult.group(k): None (has = FALSE) when the group took no part in the match
GroupOf(s, r, k) ==
    IF r.ok /\ r.caps[2 * k - 1] # 0 /\ r.caps[2 * k] # 0
    THEN [has |-> TRUE, val |-> SubSeq(s, r.caps[2 * k - 1], r.caps[2 * k] - 1)]
    ELSE [has |-> FALSE, val |-> <<>>]

\* ------------------------------------------------------------------ CLUSTER_INFO_REGEX
\* ([^\W_]+)(?:[\W_]+([^\W_]+)(?:[\W_]+(.*))?)?$
CLUSTER_INFO_REGEX ==
    << Save(1), Char("alnum"), Split(2, 4), Save(2),      \*  1- 4  ([^\W_]+)
       Split(6, 20),                                      \*  5     (?: ... )?
       Char("sep"), Split(6, 8),                          \*  6- 7  [\W_]+
       Save(3), Char("alnum"), Split(9, 11), Save(4),     \*  8-11  ([^\W_]+)
       Split(13, 20),                                     \* 12     (?: ... )?
       Char("sep"), Split(13, 15),                        \* 13-14  [\W_]+
       Save(5), Split(17, 19), Char("dot"), Jmp(16),      \* 15-18  (.*
       Save(6),                                           \* 19       )
       Eol, Matched >>                                    \* 20-21  $

\* re.search(CLUSTER_INFO_REGEX, s)
SearchClusterInfo(s) ==
    LET r == SearchFrom(CLUSTER_INFO_REGEX, s, 1)
    IN  [matched |-> r.ok, g1 |-> GroupOf(s, r, 1), g2 |-> GroupOf(s, r, 2),
         g3 |-> GroupOf(s, r, 3)]

\* ------------------------------------------------------------------ cluster-label parser
Unbound == [bound |-> FALSE, val |-> <<>>]
Bound(v) == [bound |-> TRUE, val |-> v]

\* "Try to parse cluster info": `before` is clusterName as the try block finds it.
\* A failed search makes regexResult None, regexResult.group raises and the bare
\* except leaves the three locals as they were.
ParseClusterInfo(before, s) ==
    LET r == SearchClusterInfo(s)
    IN  IF r.matched
        THEN [clusterName        |-> Bound(r.g1.val),
              clusterEnvironment |-> IF r.g2.has THEN r.g2.val ELSE <<>>,
              clusterDescriptor  |-> IF r.g3.has THEN r.g3.val ELSE <<>>,
              matched            |-> TRUE]
        ELSE [clusterName        |-> before,
              clusterEnvironment |-> <<>>,
              clusterDescriptor  |-> <<>>,
              matched            |-> FALSE]

\* ------------------------------------------------------------------ Python values
\* A local that may hold a string, another JSON value (null, a number, ...) or a
\* caught exception.
Str(s) == [kind |-> "str", val |-> s, exc |-> ""]
NonStr == [kind |-> "json", val |-> <<>>, exc |-> ""]
Exc(type) == [kind |-> "exc", val |-> <<>>, exc |-> type]
Empty == Str(<<>>)

\* ------------------------------------------------------------------ constants of the image pipeline
OS_ID_RHEL == <<"r", "h", "e", "l">>
UBI_PREFIX == <<"u", "b", "i">>

\* A text the UBI code inspects (a LABEL layer's value, the url label) is kept
\* as the two facts the code reads from it: whether it contains
\* UBI_IDENTIFIER_IN_LABEL, and what re.search(UBI_REGEX, text) returns.
NoMatch == [has |-> FALSE, name |-> <<>>, version |-> <<>>, release |-> <<>>]
Match(n, v, r) == [has |-> TRUE, name |-> n, version |-> v, release |-> r]
Text(marker, match) == [marker |-> marker, match |-> match]

\* UBI_IDENTIFIER_IN_LABEL in value
UBI_IDENTIFIER_IN_LABEL(value) == value.marker
\* re.search(UBI_REGEX, value): groups 1..3, or None
UBI_REGEX(value) == value.match

\* hasattr(labels, name): labels is the dict json.loads built (or None); hasattr
\* looks for an attribute of the object, never for a key of the mapping.
DictAttributes == {"keys", "values", "items", "get"}
HasAttr(labels, name) == name \in DictAttributes

\* ------------------------------------------------------------------ UBI resolution
NoUbi == [name |-> Empty, version |-> Empty, release |-> Empty]

\* for layer in metadataJson["layers"]: the first LABEL layer whose value holds the
\* marker and matches UBI_REGEX sets the three fields and ends the loop.
RECURSIVE ScanLayers(_)
ScanLayers(layers) ==
    IF layers = <<>> THEN NoUbi
    ELSE LET layer == Head(layers)
             m == UBI_REGEX(layer.value)
         IN  IF /\ layer.instruction = "LABEL"
                /\ UBI_IDENTIFIER_IN_LABEL(layer.value)
                /\ m.has
             THEN [name |-> Str(m.name), version |-> Str(m.version),
                   release |-> Str(m.release)]
             ELSE ScanLayers(Tail(layers))

\* "If the base image labels have been removed": the url label, then the
\* discrete labels.  Returns the fields and the exception raised on the way, if any.
FromLabels(v1) ==
    IF ~v1.labels.present
    THEN [u |-> NoUbi, raised |-> "KeyError"]
    ELSE LET labels == v1.labels
             m == UBI_REGEX(labels.url.val)
             byUrl == IF HasAttr(labels, "url") /\ m.has
                      THEN [name |-> Str(m.name), version |-> Str(m.version),
                            release |-> Str(m.release)]
                      ELSE NoUbi
         IN  IF HasAttr(labels, "url") /\ ~labels.hasUrl
             THEN [u |-> NoUbi, raised |-> "KeyError"]
             ELSE IF byUrl.name # Empty THEN [u |-> byUrl, raised |-> ""]
             ELSE IF ~labels.name.has THEN [u |-> byUrl, raised |-> "KeyError"]
             ELSE IF ~labels.version.has
                  THEN [u |-> [byUrl EXCEPT !.name = labels.name.val],
                        raised |-> "KeyError"]
             ELSE IF ~labels.release.has
                  THEN [u |-> [name |-> labels.name.val, version |-> labels.version.val,
                               release |-> Empty],
                        raised |-> "KeyError"]
             ELSE [u |-> [name |-> labels.name.val, version |-> labels.version.val,
                          release |-> labels.release.val],
                   raised |-> ""]

\* "Ignore non-ubi metadata"
Gate(u) ==
    IF ~StartsWith(u.name.val, UBI_PREFIX) THEN NoUbi ELSE u

\* The try block of one container, up to and including its except clause:
\* f is what getJsonFromRhacsApi("/images/" + imageId) did.
\*   os, name, version, release : the locals when the finally clause starts
\*   raised   : the exception caught by "except Exception as ex" ("" when none)
\*   resolved : the three fields when control reached the gate (atGate)
ImageDetail(f) ==
    LET clean(os, u) ==
            [os |-> os, name |-> u.name, version |-> u.version, release |-> u.release,
             raised |-> "", atGate |-> FALSE, resolved |-> NoUbi]
        caught(type, u) ==
            [os |-> Exc(type), name |-> Exc(type), version |-> u.version,
             release |-> u.release, raised |-> type, atGate |-> FALSE, resolved |-> NoUbi]
    IN  IF f.kind = "raise" THEN caught("URLError", NoUbi)
        ELSE IF f.kind = "none" THEN clean(Empty, NoUbi)
        ELSE IF ~f.json.v1.present THEN caught("KeyError", NoUbi)
        ELSE IF ~f.json.scan.present THEN caught("KeyError", NoUbi)
        ELSE IF ~StartsWith(f.json.scan.operatingSystem, OS_ID_RHEL)
             THEN clean(Str(f.json.scan.operatingSystem), NoUbi)
        ELSE LET byLayer == ScanLayers(f.json.v1.layers)
                 r == IF byLayer.name = Empty
                      THEN FromLabels(f.json.v1)
                      ELSE [u |-> byLayer, raised |-> ""]
             IN  IF r.raised # "" THEN caught(r.raised, r.u)
                 ELSE IF r.u.name.kind # "str"
                      THEN [caught("AttributeError", r.u) EXCEPT
                               !.atGate = TRUE, !.resolved = r.u]
                 ELSE [clean(Str(f.json.scan.operatingSystem), Gate(r.u)) EXCEPT
                               !.atGate = TRUE, !.resolved = r.u]

\* ------------------------------------------------------------------ API data
\* GET /images/{id}, status 200: the fields of the JSON the code reads.
\*   metadata.v1 (with created, layers, labels), scan (with operatingSystem, components)
ImageJson(v1, scan) == [v1 |-> v1, scan |-> scan]
NoV1 == [present |-> FALSE, layers |-> <<>>,
         labels |-> [present |-> FALSE]]
V1(layers, labels) == [present |-> TRUE, layers |-> layers, labels |-> labels]
NoScan == [present |-> FALSE, operatingSystem |-> <<>>, components |-> <<>>]
Scan(os, components) == [present |-> TRUE, operatingSystem |-> os, components |-> components]

NoLabels == [present |-> FALSE]
Absent == [has |-> FALSE]
Entry(v) == [has |-> TRUE, val |-> v]
Labels(url, name, version, release) ==
    [present |-> TRUE,
     url |-> IF url.has THEN url ELSE Entry(Text(FALSE, NoMatch)),
     hasUrl |-> url.has,
     name |-> name, version |-> version, release |-> release]

\* what getJsonFromRhacsApi did: returned the JSON (status 200), returned None
\* (any other status urlopen hands back), or raised (HTTPError, URLError, bad JSON)
Fetched(json) == [kind |-> "ok", json |-> json]
FetchedNone == [kind |-> "none"]
FetchRaised == [kind |-> "raise"]

\* A vulnerability of a scanned component.  A malformed one has no "cve" key.
Vuln(id, severity, fixable) ==
    [hasCve |-> TRUE, cve |-> id, severity |-> severity, hasFixedBy |-> fixable]
MalformedVuln == [hasCve |-> FALSE, cve |-> "", severity |-> "", hasFixedBy |-> FALSE]

\* ------------------------------------------------------------------ CVE aggregation
\* A dict is its list of items in insertion order (Python 3.7+); Index is the
\* position of the first item with the key, 0 when there is none.
Index(items, key, k) ==
    LET at == {i \in 1..Len(items) : items[i][k] = key}
    IN  IF at = {} THEN 0 ELSE Min(at)

\* if x not in list: list.append(x)
AppendAlways(list, x) == Append(list, x)

AppendIfAbsent(list, x) ==
    IF \E i \in 1..Len(list) : list[i] = x THEN list ELSE Append(list, x)

\* currentCveDetail.cve = cve
KeepFirstRecord(old, cve) == IF old.cve.hasCve THEN old.cve ELSE cve

StoreRecord(old, cve) == cve

\* CveDetail()
CveDetail(cveId) == [cveId |-> cveId, cve |-> MalformedVuln, namespaces |-> <<>>, images |-> <<>>]

\* The body of "for cve in component["vulns"]" for a well-formed cve.
MergeVuln(cveDetails, namespace, imageFullName, cve) ==
    LET with == IF Index(cveDetails, cve.cve, "cveId") = 0
                THEN Append(cveDetails, CveDetail(cve.cve))
                ELSE cveDetails
        i == Index(with, cve.cve, "cveId")
        old == with[i]
    IN  [with EXCEPT ![i] =
            [cveId      |-> old.cveId,
             cve        |-> StoreRecord(old, cve),
             namespaces |-> AppendIfAbsent(old.namespaces, namespace),
             images     |-> AppendIfAbsent(old.images, imageFullName)]]

\* The vulnerabilities of all components, in the order the two loops visit them.
RECURSIVE Flatten(_)
Flatten(components) ==
    IF components = <<>> THEN <<>> ELSE Head(components) \o Flatten(Tail(components))

\* The finally clause on a response that has scan.components: merges until a
\* vulnerability without "cve" raises KeyError.
\*   cveDetails : the cluster's dict after the loop or at the raise
\*   raised     : whether the loop raised
\*   merged     : the vulnerabilities merged, in order
RECURSIVE MergeAll(_, _, _, _)
MergeAll(cveDetails, namespace, imageFullName, vulns) ==
    IF vulns = <<>> THEN [cveDetails |-> cveDetails, raised |-> FALSE, merged |-> <<>>]
    ELSE IF ~Head(vulns).hasCve
         THEN [cveDetails |-> cveDetails, raised |-> TRUE, merged |-> <<>>]
    ELSE LET rest == MergeAll(MergeVuln(cveDetails, namespace, imageFullName, Head(vulns)),
                              namespace, imageFullName, Tail(vulns))
         IN  [rest EXCEPT !.merged = <<Head(vulns)>> \o @]

\* ClusterDetail()
ClusterDetail(clusterId, label) ==
    [clusterId          |-> clusterId,
     clusterName        |-> label.clusterName.val,
     clusterEnvironment |-> label.clusterEnvironment,
     clusterDescriptor  |-> label.clusterDescriptor,
     cveDetails         |-> <<>>]

\* ------------------------------------------------------------------ image pipeline: inputs
\* /deployments names each cluster by its id and its cluster string:
\* "a-1", "1", and "-", which CLUSTER_INFO_REGEX does not match
ClusterNames == [c1 |-> <<"a", "-", "1">>, c2 |-> <<"1">>, c3 |-> <<"-">>]
ClusterIds == DOMAIN ClusterNames
NsApp == <<"a", "p", "p">>
NsDb == <<"d", "b">>
NsOpenshift == <<"o", "p", "e", "n", "s", "h", "i", "f", "t", "-", "d", "n", "s">>
Namespaces == {NsApp, NsDb, NsOpenshift}
OPENSHIFT == <<"o", "p", "e", "n", "s", "h", "i", "f", "t">>
IS_INCLUDE_OPENSHIFT_NAMESPACE == FALSE
Images == {"i1", "i2"}

Deployments ==
    {[clusterId |-> c, cluster |-> ClusterNames[c], namespace |-> n] :
        c \in ClusterIds, n \in Namespaces}
\* deploymentsToBeInspected
DeploymentsToBeInspected ==
    IF IS_INCLUDE_OPENSHIFT_NAMESPACE THEN Deployments
    ELSE {d \in Deployments : ~StartsWith(d.namespace, OPENSHIFT)}

CRITICAL == "CRITICAL_VULNERABILITY_SEVERITY"
LOW == "LOW_VULNERABILITY_SEVERITY"
VulnA1 == Vuln("CVE-A", CRITICAL, TRUE)
VulnA2 == Vuln("CVE-A", LOW, FALSE)
VulnB == Vuln("CVE-B", "NEW_SEVERITY", FALSE)

Ubi8 == <<"u", "b", "i", "8">>
Ubi9 == <<"u", "b", "i", "9">>
Ubi6 == <<"u", "b", "i", "6">>
Ubi7 == <<"u", "b", "i", "7">>
NotUbi == <<"u", "b">>
Rhel8 == <<"r", "h", "e", "l", "8">>
Debian == <<"d", "e", "b">>
Layer(instruction, value) == [instruction |-> instruction, value |-> value]

\* GET /images/{id} answers of the pipeline specification
PipelineJsons ==
    { \* not rhel based; CVE-A in two components with different records
      ImageJson(V1(<<>>, NoLabels), Scan(Debian, <<<<VulnA1>>, <<VulnA2>>>>)),
      \* UBI image with its LABEL layer
      ImageJson(V1(<<Layer("LABEL", Text(TRUE, Match(Ubi8, <<"8">>, <<"1">>)))>>, NoLabels),
                Scan(Rhel8, <<<<VulnA1>>, <<VulnB>>>>)),
      \* rhel based, labels removed: resolution raises KeyError
      ImageJson(V1(<<>>, NoLabels), Scan(Rhel8, <<<<VulnB>>>>)),
      \* a vulnerability without "cve"
      ImageJson(V1(<<>>, NoLabels), Scan(Debian, <<<<VulnB, MalformedVuln, VulnA1>>>>)),
      \* not scanned
      ImageJson(V1(<<>>, NoLabels), NoScan) }

ImageFetches == {FetchRaised, FetchedNone} \cup {Fetched(j) : j \in PipelineJsons}

\* ------------------------------------------------------------------ image pipeline: main
CSV_HEADER == <<"Cluster Name", "Environment", "Cluster Descriptor", "CVE", "Fixable",
                "Severity", "CVSS", "Impact Score", "Namespaces", "Images",
                "Published On", "Discovered On", "Link", "Summary">>

VULNERABILITY_SEVERITY(severity) ==
    CASE severity = "CRITICAL_VULNERABILITY_SEVERITY"  -> "Critical"
      [] severity = "IMPORTANT_VULNERABILITY_SEVERITY" -> "Important"
      [] severity = "MODERATE_VULNERABILITY_SEVERITY"  -> "Moderate"
      [] severity = "LOW_VULNERABILITY_SEVERITY"       -> "Low"
      [] severity = "UNKNOWN_VULNERABILITY_SEVERITY"   -> "Unknown"
      [] OTHER -> ""

NoFile == [open |-> FALSE, rows |-> <<>>]
NoStep == [ran |-> FALSE]

\* responseJson = getJsonFromRhacsApi("/deployments")
ListDeployments ==
    /\ pc = "start"
    /\ \E f \in {"ok", "none", "raise"} :
         /\ pc' = CASE f = "ok" -> "loop" [] f = "none" -> "write" [] OTHER -> "crashed"
         /\ responseJson' = CASE f = "ok" -> [kind |-> "deployments"]
                              [] f = "none" -> [kind |-> "none"]
                              [] OTHER -> responseJson
    /\ UNCHANGED <<cvesByCluster, clusterName, current, containers, csvFile, inspected,
                   turns, seen, ubiVars, nodeVars, parseVars>>

\* One turn of "for deployment in deploymentsToBeInspected", up to the container loop:
\* parse the cluster string, make the cluster's ClusterDetail, fetch the detail.
NextDeployment ==
    /\ pc = "loop"
    /\ inspected < MaxDeployments
    /\ \E d \in DeploymentsToBeInspected :
         LET label == ParseClusterInfo(clusterName, d.cluster)
             known == Index(cvesByCluster, d.clusterId, "clusterId") # 0
         IN  /\ clusterName' = label.clusterName
             /\ IF ~label.clusterName.bound
                THEN \* clusterName is read unbound (line 150): UnboundLocalError
                     /\ pc' = "crashed"
                     /\ UNCHANGED <<cvesByCluster, current, containers, inspected,
                                    responseJson>>
                ELSE /\ cvesByCluster' =
                            IF known THEN cvesByCluster
                            ELSE Append(cvesByCluster, ClusterDetail(d.clusterId, label))
                     /\ current' = [clusterId |-> d.clusterId, namespace |-> d.namespace]
                     /\ inspected' = inspected + 1
                     /\ \/ \* GET /deployments/{id} raises: caught by the outer except
                           /\ pc' = "loop"
                           /\ UNCHANGED <<responseJson, containers>>
                        \/ \* GET /deployments/{id} yields None
                           /\ pc' = "loop"
                           /\ responseJson' = [kind |-> "none"]
                           /\ UNCHANGED containers
                        \/ \E cs \in SeqsUpTo(Images, MaxInspections - turns) :
                             /\ responseJson' = [kind |-> "detail"]
                             /\ containers' = cs
                             /\ pc' = IF cs = <<>> THEN "loop" ELSE "container"
    \* The locals of the container loop are assigned again before they are next
    \* read (lines 174-180), so the model forgets what the last turn left in them.
    /\ seen' = NoStep
    /\ fetched' = FetchedNone
    /\ ubi' = ImageDetail(FetchedNone)
    /\ UNCHANGED <<csvFile, turns, nodeVars, parseVars>>

\* One turn of "for container in containers": the try block (ImageDetail) and the
\* finally clause, which reads responseJson whatever the try block left in it.
InspectContainer ==
    /\ pc = "container"
    /\ \E f \in ImageFetches :
         LET imageFullName == Head(containers)
             response == CASE f.kind = "ok" -> [kind |-> "image", json |-> f.json,
                                                 image |-> imageFullName]
                           [] f.kind = "none" -> [kind |-> "none"]
                           [] OTHER -> responseJson
             i == Index(cvesByCluster, current.clusterId, "clusterId")
             \* responseJson["scan"]["components"]: TypeError on None, KeyError without scan
             readable == response.kind = "image" /\ response.json.scan.present
             m == MergeAll(cvesByCluster[i].cveDetails, current.namespace, imageFullName,
                           Flatten(response.json.scan.components))
         IN  /\ fetched' = f
             /\ turns' = turns + 1
             /\ ubi' = ImageDetail(f)
             /\ responseJson' = response
             /\ IF readable
                THEN /\ cvesByCluster' = [cvesByCluster EXCEPT ![i].cveDetails = m.cveDetails]
                     /\ seen' = [ran |-> TRUE, image |-> imageFullName,
                                 from |-> response.image, merged |-> m.merged,
                                 raised |-> m.raised]
                     /\ containers' = IF m.raised THEN <<>> ELSE Tail(containers)
                ELSE /\ UNCHANGED cvesByCluster
                     /\ seen' = [ran |-> TRUE, image |-> imageFullName, from |-> "",
                                 merged |-> <<>>, raised |-> TRUE]
                     /\ containers' = <<>>
             /\ pc' = IF containers' = <<>> THEN "loop" ELSE "container"
    /\ UNCHANGED <<clusterName, current, csvFile, inspected, nodeVars, parseVars>>

\* Code points of the characters in use, for Python's string comparison.
CodePoint(c) ==
    CASE c = NL -> 10 [] c = "-" -> 45 [] c = "1" -> 49 [] c = "_" -> 95 [] c = "a" -> 97

\* s < t for Python strings
RECURSIVE StrLess(_, _)
StrLess(s, t) ==
    IF t = <<>> THEN FALSE
    ELSE IF s = <<>> THEN TRUE
    ELSE IF Head(s) # Head(t) THEN CodePoint(Head(s)) < CodePoint(Head(t))
    ELSE StrLess(Tail(s), Tail(t))

\* key = lambda clusterId: clusterName alone
KeyByNameOnly(a, b) == StrLess(a.clusterName, b.clusterName)

\* key = lambda clusterId: (clusterEnvironment, clusterName), compared as tuples
KeyLess(a, b) ==
    \/ StrLess(a.clusterEnvironment, b.clusterEnvironment)
    \/ /\ a.clusterEnvironment = b.clusterEnvironment
       /\ StrLess(a.clusterName, b.clusterName)

\* sorted(): stable, so an item goes after the items whose key is not greater
RECURSIVE InsertSorted(_, _)
InsertSorted(sorted, x) ==
    IF sorted = <<>> THEN <<x>>
    ELSE IF KeyLess(x, Head(sorted)) THEN <<x>> \o sorted
    ELSE <<Head(sorted)>> \o InsertSorted(Tail(sorted), x)

RECURSIVE Sorted(_)
Sorted(items) ==
    IF items = <<>> THEN <<>>
    ELSE InsertSorted(Sorted(SubSeq(items, 1, Len(items) - 1)), items[Len(items)])

HeaderRow == [kind |-> "header", cells |-> CSV_HEADER]

\* writer.writerow([...]) of the image report: the columns that depend on the
\* aggregate.  The Namespaces and Images cells are the newline-joined lists.
ImageRow(clusterDetail, cveDetail) ==
    [kind |-> "data",
     cells |-> [clusterName       |-> clusterDetail.clusterName,
                environment       |-> clusterDetail.clusterEnvironment,
                clusterDescriptor |-> clusterDetail.clusterDescriptor,
                cve               |-> cveDetail.cveId,
                fixable           |-> IF cveDetail.cve.hasFixedBy THEN "Fixable"
                                      ELSE "Not Fixable",
                severity          |-> VULNERABILITY_SEVERITY(cveDetail.cve.severity),
                namespaces        |-> cveDetail.namespaces,
                images            |-> cveDetail.images]]

\* the rows of one cluster, in the iteration order of its cveDetails
ClusterRows(clusterDetail) ==
    [i \in 1..Len(clusterDetail.cveDetails) |->
        ImageRow(clusterDetail, clusterDetail.cveDetails[i])]

RECURSIVE AllRows(_)
AllRows(clusters) ==
    IF clusters = <<>> THEN <<>>
    ELSE ClusterRows(Head(clusters)) \o AllRows(Tail(clusters))

\* "Create the CSV file", reached when the deployment loop ends or when
\* /deployments gave None: header, then the rows of the clusters in sorted order
WriteCsv ==
    /\ pc \in {"loop", "write"}
    /\ csvFile' = [open |-> TRUE, rows |-> <<HeaderRow>> \o AllRows(Sorted(cvesByCluster))]
    /\ pc' = "done"
    /\ UNCHANGED <<cvesByCluster, clusterName, responseJson, current, containers,
                   inspected, turns, seen, ubiVars, nodeVars, parseVars>>

UbiIdle ==
    /\ fetched = FetchedNone
    /\ ubi = ImageDetail(FetchedNone)
NodeIdle ==
    /\ npc = "idle"
    /\ nclusters = <<>>
    /\ nlabel = ParseClusterInfo(Unbound, <<>>)
    /\ nnodes = <<>>
    /\ nnode = 0
    /\ ncves = <<>>
    /\ nodeCsv = NoFile
    /\ ncall = [endpoint |-> "", outcome |-> ""]
    /\ returned = <<>>
    /\ nused = [nodes |-> 0, cves |-> 0]
ParseIdle ==
    /\ raw = <<>>
    /\ parsed = [done |-> FALSE]
ImageIdle ==
    /\ pc = "idle"
    /\ cvesByCluster = <<>>
    /\ clusterName = Unbound
    /\ responseJson = [kind |-> "unbound"]
    /\ current = [clusterId |-> "", namespace |-> <<>>]
    /\ containers = <<>>
    /\ csvFile = NoFile
    /\ inspected = 0
    /\ turns = 0
    /\ seen = NoStep

\* main of generate-cves-by-image.py starts
Init ==
    /\ pc = "start"
    /\ cvesByCluster = <<>>
    /\ clusterName = Unbound
    /\ responseJson = [kind |-> "unbound"]
    /\ current = [clusterId |-> "", namespace |-> <<>>]
    /\ containers = <<>>
    /\ csvFile = NoFile
    /\ inspected = 0
    /\ turns = 0
    /\ seen = NoStep
    /\ UbiIdle /\ NodeIdle /\ ParseIdle

Next ==
    \/ ListDeployments
    \/ NextDeployment
    \/ InspectContainer
    \/ WriteCsv

Spec == Init /\ [][Next]_vars

\* ------------------------------------------------------------------ properties: helpers
Range(list) == {list[i] : i \in 1..Len(list)}
NoDuplicates(list) == \A i, j \in 1..Len(list) : i # j => list[i] # list[j]
IsPrefix(old, new) == Len(old) <= Len(new) /\ SubSeq(new, 1, Len(old)) = old

\* `new` is `old` with x put at the end unless it was there (touched), or `old`
ListStep(old, new, x, touched) ==
    /\ IsPrefix(old, new)
    /\ NoDuplicates(new)
    /\ touched => /\ x \in Range(new)
                  /\ Len(new) <= Len(old) + 1
                  /\ Len(new) = Len(old) + 1 => new[Len(new)] = x /\ x \notin Range(old)
    /\ ~touched => new = old

\* the CVE ids the last container turn merged
MergedIds(step) == IF step.ran THEN {step.merged[k].cve : k \in 1..Len(step.merged)} ELSE {}

\* the last record the turn merged for a CVE id
LastMerged(step, id) ==
    step.merged[Max({k \in 1..Len(step.merged) : step.merged[k].cve = id})]

\* ------------------------------------------------------------------ C1
\* C1: in every cluster aggregate each CVE id has exactly one CveAggregate, whose
\* namespaces and images lists hold no duplicate and are in first-seen order: a
\* step changes a list only by putting the current namespace / image at its end,
\* and only when it is not in the list yet.
C1_AggregateLists ==
    [][ IF pc = "container"
        THEN LET i == Index(cvesByCluster, current.clusterId, "clusterId")
                 old == cvesByCluster[i].cveDetails
                 new == cvesByCluster'[i].cveDetails
                 ids == MergedIds(seen')
             IN  /\ Len(cvesByCluster') = Len(cvesByCluster)
                 /\ \A k \in 1..Len(cvesByCluster) :
                       k # i => cvesByCluster'[k] = cvesByCluster[k]
                 /\ cvesByCluster'[i].clusterId = current.clusterId
                 /\ NoDuplicates([k \in 1..Len(new) |-> new[k].cveId])
                 /\ IsPrefix([k \in 1..Len(old) |-> old[k].cveId],
                             [k \in 1..Len(new) |-> new[k].cveId])
                 /\ \A k \in 1..Len(new) :
                      LET before == IF k <= Len(old) THEN old[k] ELSE CveDetail(new[k].cveId)
                          touched == new[k].cveId \in ids
                      IN  /\ ListStep(before.namespaces, new[k].namespaces,
                                      current.namespace, touched)
                          /\ ListStep(before.images, new[k].images,
                                      Head(containers), touched)
                          /\ k > Len(old) => touched
        ELSE \/ cvesByCluster' = cvesByCluster
             \/ /\ Len(cvesByCluster') = Len(cvesByCluster) + 1
                /\ SubSeq(cvesByCluster', 1, Len(cvesByCluster)) = cvesByCluster
                /\ cvesByCluster'[Len(cvesByCluster')].cveDetails = <<>>
                /\ \A k \in 1..Len(cvesByCluster) :
                      cvesByCluster[k].clusterId
                         # cvesByCluster'[Len(cvesByCluster')].clusterId
      ]_vars

\* Two deployments in different namespaces sharing one image with one CVE: the
\* CVE has both namespaces and the image once.
C1_Witness ==
    /\ turns = 2
    /\ inspected = 2
    /\ \E k \in 1..Len(cvesByCluster) :
         \E j \in 1..Len(cvesByCluster[k].cveDetails) :
            /\ cvesByCluster[k].cveDetails[j].namespaces = <<NsApp, NsDb>>
            /\ cvesByCluster[k].cveDetails[j].images = <<"i1">>

\* ------------------------------------------------------------------ C2
Fixable(cve) == IF cve.hasFixedBy THEN "Fixable" ELSE "Not Fixable"

\* C2: when a CVE id is seen again in a cluster the stored record becomes the
\* record of the last occurrence processed, the lists accumulated so far are
\* kept, and the report row of the CVE shows the stored record's fields.
C2_LastRecordWins ==
    [][ /\ pc = "container" =>
             LET i == Index(cvesByCluster, current.clusterId, "clusterId")
                 old == cvesByCluster[i].cveDetails
                 new == cvesByCluster'[i].cveDetails
             IN  /\ Len(old) <= Len(new)
                 /\ \A k \in 1..Len(new) :
                      /\ new[k].cveId \in MergedIds(seen') =>
                            new[k].cve = LastMerged(seen', new[k].cveId)
                      /\ k <= Len(old) =>
                            /\ new[k].cveId = old[k].cveId
                            /\ IsPrefix(old[k].namespaces, new[k].namespaces)
                            /\ IsPrefix(old[k].images, new[k].images)
                            /\ new[k].cveId \notin MergedIds(seen') => new[k].cve = old[k].cve
        /\ pc' = "done" /\ pc # "done" =>
             /\ Len(csvFile'.rows) =
                  1 + Len(AllRows(cvesByCluster))
             /\ \A k \in 1..Len(cvesByCluster) :
                  \A j \in 1..Len(cvesByCluster[k].cveDetails) :
                     LET d == cvesByCluster[k].cveDetails[j]
                     IN  \E r \in 2..Len(csvFile'.rows) :
                            LET cells == csvFile'.rows[r].cells
                            IN  /\ cells.clusterName = cvesByCluster[k].clusterName
                                /\ cells.environment = cvesByCluster[k].clusterEnvironment
                                /\ cells.cve = d.cveId
                                /\ cells.fixable = Fixable(d.cve)
                                /\ cells.severity = VULNERABILITY_SEVERITY(d.cve.severity)
                                /\ cells.namespaces = d.namespaces
                                /\ cells.images = d.images
      ]_vars

\* A container turn merged CVE-A twice with different records and the stored
\* record is the later one.
C2_Witness ==
    /\ seen.ran
    /\ \E k, l \in 1..Len(seen.merged) :
         /\ k < l
         /\ seen.merged[k].cve = seen.merged[l].cve
         /\ seen.merged[k] # seen.merged[l]
         /\ \E j \in 1..Len(cvesByCluster[Index(cvesByCluster, current.clusterId,
                                                 "clusterId")].cveDetails) :
              LET d == cvesByCluster[Index(cvesByCluster, current.clusterId,
                                           "clusterId")].cveDetails[j]
              IN  /\ d.cveId = seen.merged[l].cve
                  /\ d.cve = seen.merged[l]
                  /\ d.cve # seen.merged[k]
                  /\ Len(d.namespaces) = 2

\* ------------------------------------------------------------------ C11
\* s < t, character by character on code points
StrBefore(s, t) ==
    \E k \in 1..Len(t) :
       /\ k <= Len(s) + 1
       /\ SubSeq(s, 1, k - 1) = SubSeq(t, 1, k - 1)
       /\ k = Len(s) + 1 \/ CodePoint(s[k]) < CodePoint(t[k])

\* the pair (environment, clusterName) of a is strictly greater than that of b
PairGreater(a, b) ==
    \/ StrBefore(b.environment, a.environment)
    \/ a.environment = b.environment /\ StrBefore(b.clusterName, a.clusterName)

\* the orders in which the clusters of the run can be laid out
ClusterOrders ==
    {p \in [1..Len(cvesByCluster) -> 1..Len(cvesByCluster)] :
        \A i, j \in 1..Len(cvesByCluster) : i # j => p[i] # p[j]}

RECURSIVE RowsInOrder(_, _)
RowsInOrder(p, k) ==
    IF k > Len(cvesByCluster) THEN <<>>
    ELSE ClusterRows(cvesByCluster[p[k]]) \o RowsInOrder(p, k + 1)

ParsedName(c) == ParseClusterInfo(Unbound, ClusterNames[c])

\* C4: a cluster string the pattern does not match never crashes the image
\* pipeline, and the cluster it belongs to never gets the name of another cluster.
C4_ParseFailureHarmless ==
    /\ ~(pc = "crashed" /\ responseJson.kind = "deployments")
    /\ \A k \in 1..Len(cvesByCluster) :
         ~ParsedName(cvesByCluster[k].clusterId).matched =>
            /\ cvesByCluster[k].clusterEnvironment = <<>>
            /\ cvesByCluster[k].clusterDescriptor = <<>>
            /\ \A c \in ClusterIds \ {cvesByCluster[k].clusterId} :
                 ParsedName(c).matched =>
                    cvesByCluster[k].clusterName # ParsedName(c).clusterName.val

\* ------------------------------------------------------------------ C6
\* the scan of the image answer lists only well-formed vulnerabilities
ScanWellFormed(f) ==
    /\ f.kind = "ok"
    /\ f.json.scan.present
    /\ \A k \in 1..Len(Flatten(f.json.scan.components)) :
          Flatten(f.json.scan.components)[k].hasCve

\* C6: when the image fetch yields no data, or UBI resolution raises on an image
\* whose scan is well formed, the finally clause still runs CVE extraction on the
\* image's own scan and the deployment goes on with its next container.
C6_UbiFailureIsolated ==
    seen.ran =>
       /\ fetched.kind = "none" => ~seen.raised
       /\ ScanWellFormed(fetched) /\ ubi.raised # "" =>
             /\ ~seen.raised
             /\ seen.from = seen.image
             /\ seen.merged = Flatten(fetched.json.scan.components)

\* ------------------------------------------------------------------ C12
\* C12: the vulnerabilities a container turn merges under its image and
\* namespace come from a response fetched for that very image, never from the
\* response of another container's image or from the deployment detail.
C12_SoundAttribution ==
    seen.ran /\ seen.merged # <<>> => seen.from = seen.image

\* ------------------------------------------------------------------ UBI specification
\* The try block of one container on every image answer within the bounds.
LayerTexts ==
    {Text(marker, match) :
        marker \in BOOLEAN,
        match \in {NoMatch, Match(Ubi8, <<"8">>, <<"1">>), Match(Ubi9, <<"9">>, <<"2">>),
                   Match(NotUbi, <<"8">>, <<"1">>)}}
LayerSet ==
    {Layer("LABEL", text) : text \in LayerTexts}
        \cup {Layer("RUN", Text(TRUE, Match(Ubi9, <<"9">>, <<"2">>)))}
UrlLabels ==
    {Absent, Entry(Text(FALSE, NoMatch)), Entry(Text(FALSE, Match(Ubi6, <<"6">>, <<"3">>))),
     Entry(Text(FALSE, Match(NotUbi, <<"6">>, <<"3">>)))}
NameLabels == {Absent, Entry(Str(Ubi7)), Entry(Str(NotUbi)), Entry(NonStr)}
VersionLabels == {Absent, Entry(Str(<<"7">>))}
ReleaseLabels == {Absent, Entry(Str(<<"4">>))}
LabelSet ==
    {NoLabels} \cup
    {Labels(url, name, version, release) :
        url \in UrlLabels, name \in NameLabels, version \in VersionLabels,
        release \in ReleaseLabels}

UbiJsons ==
    {ImageJson(V1(layers, labels), Scan(os, <<>>)) :
        layers \in SeqsUpTo(LayerSet, MaxLayers), labels \in LabelSet,
        os \in {Rhel8, Debian}}
        \cup {ImageJson(NoV1, Scan(Rhel8, <<>>)), ImageJson(V1(<<>>, NoLabels), NoScan)}

UbiFetches == {FetchRaised, FetchedNone} \cup {Fetched(j) : j \in UbiJsons}

\* lines 174-227 for one image
ResolveImage ==
    /\ pc = "image"
    /\ ubi' = ImageDetail(fetched)
    /\ pc' = "finally"
    /\ UNCHANGED <<cvesByCluster, clusterName, responseJson, current, containers, csvFile,
                   inspected, turns, seen, fetched, nodeVars, parseVars>>

InitUbi ==
    /\ pc = "image"
    /\ cvesByCluster = <<>>
    /\ clusterName = Unbound
    /\ responseJson = [kind |-> "unbound"]
    /\ current = [clusterId |-> "", namespace |-> <<>>]
    /\ containers = <<>>
    /\ csvFile = NoFile
    /\ inspected = 0
    /\ turns = 0
    /\ seen = NoStep
    /\ fetched \in UbiFetches
    /\ ubi = ImageDetail(FetchedNone)
    /\ NodeIdle /\ ParseIdle

NextUbi == ResolveImage

SpecUbi == InitUbi /\ [][NextUbi]_vars

\* ------------------------------------------------------------------ C7
FromMatch(m) == [name |-> Str(m.name), version |-> Str(m.version), release |-> Str(m.release)]

\* the resolution order of layers, url label, discrete labels; known is FALSE
\* where the order names no source
UbiByOrder(json) ==
    LET byLayer == ScanLayers(json.v1.layers)
        labels == json.v1.labels
    IN  IF byLayer.name # Empty THEN [known |-> TRUE, u |-> byLayer]
        ELSE IF ~labels.present THEN [known |-> FALSE, u |-> NoUbi]
        ELSE IF labels.hasUrl /\ UBI_REGEX(labels.url.val).has
             THEN [known |-> TRUE, u |-> FromMatch(UBI_REGEX(labels.url.val))]
        ELSE IF labels.name.has /\ labels.version.has /\ labels.release.has
             THEN [known |-> TRUE,
                   u |-> [name |-> labels.name.val, version |-> labels.version.val,
                          release |-> labels.release.val]]
        ELSE [known |-> FALSE, u |-> NoUbi]

\* C7: for a rhel image name, version and release come from the first source
\* that succeeds: the first matching LABEL layer, then the url label, then the
\* discrete labels; for any other image nothing is resolved and they stay empty.
C7_ResolutionOrder ==
    pc = "finally" /\ fetched.kind = "ok" =>
       (fetched.json.v1.present /\ fetched.json.scan.present =>
          IF StartsWith(fetched.json.scan.operatingSystem, OS_ID_RHEL)
          THEN UbiByOrder(fetched.json).known =>
                  /\ ubi.atGate
                  /\ ubi.resolved = UbiByOrder(fetched.json).u
          ELSE /\ ~ubi.atGate
               /\ ubi.raised = ""
               /\ ubi.name = Empty /\ ubi.version = Empty /\ ubi.release = Empty)

\* ------------------------------------------------------------------ C8
\* the (name, version, release) each single source of the image offers
UbiSources(f) ==
    IF f.kind # "ok" THEN {}
    ELSE IF ~f.json.v1.present THEN {}
    ELSE LET layers == f.json.v1.layers
             labels == f.json.v1.labels
         IN  {FromMatch(UBI_REGEX(layers[i].value)) :
                 i \in {j \in 1..Len(layers) : UBI_REGEX(layers[j].value).has}}
             \cup (IF labels.present /\ labels.hasUrl /\ UBI_REGEX(labels.url.val).has
                   THEN {FromMatch(UBI_REGEX(labels.url.val))} ELSE {})
             \cup (IF /\ labels.present
                      /\ labels.name.has /\ labels.version.has /\ labels.release.has
                   THEN {[name |-> labels.name.val, version |-> labels.version.val,
                          release |-> labels.release.val]}
                   ELSE {})

\* C8: when the resolution step of an image has ended, by any path, name, version
\* and release are all three from one source with a name that starts with "ubi",
\* or all three are the empty string.
C8_AllOrNothing ==
    pc = "finally" =>
       \/ ubi.name = Empty /\ ubi.version = Empty /\ ubi.release = Empty
       \/ /\ ubi.name.kind = "str"
          /\ StartsWith(ubi.name.val, UBI_PREFIX)
          /\ [name |-> ubi.name, version |-> ubi.version, release |-> ubi.release]
                \in UbiSources(fetched)

\* ------------------------------------------------------------------ node pipeline
NODE_CSV_HEADER == <<"Cluster Name", "Environment", "Cluster Descriptor", "Node Name", "CVE",
                     "Fixable", "Severity", "CVSS", "Env. Impact", "Impact Score",
                     "Published On", "Discovered On", "Link", "Summary">>
NodeHeaderRow == [kind |-> "header", cells |-> NODE_CSV_HEADER]

\* A vulnerability of the GraphQL answer.  A malformed one lacks a field the row
\* needs or has null where the row formats a number, so building its row raises.
NodeVuln(id, severity, fixable) ==
    [wellFormed |-> TRUE, cve |-> id, severity |-> severity, isFixable |-> fixable]
MalformedNodeVuln ==
    [wellFormed |-> FALSE, cve |-> "CVE-X", severity |-> CRITICAL, isFixable |-> FALSE]
NodeVulns == {NodeVuln("CVE-A", CRITICAL, TRUE), NodeVuln("CVE-B", LOW, FALSE),
              MalformedNodeVuln}

\* the lists of distinct clusters /clusters may return
ClusterLists ==
    {cs \in SeqsUpTo(ClusterIds, MaxClusters) :
        \A i, j \in 1..Len(cs) : i # j => cs[i] # cs[j]}

\* the row of one vulnerability: the columns that depend on the locals
NodeRow(label, nodeName, cve) ==
    [kind |-> "data",
     cells |-> [clusterName       |-> label.clusterName.val,
                environment       |-> label.clusterEnvironment,
                clusterDescriptor |-> label.clusterDescriptor,
                nodeName          |-> nodeName,
                cve               |-> cve.cve,
                fixable           |-> IF cve.isFixable THEN "Fixable" ELSE "Not Fixable",
                severity          |-> VULNERABILITY_SEVERITY(cve.severity)]]

\* writer.writerow(row); f.flush()
WriteRowFirst(file, row) == [file EXCEPT !.rows = <<Head(@), row>> \o Tail(@)]

WriteRowAndFlush(file, row) == [file EXCEPT !.rows = Append(@, row)]

\* responseJson = getJsonFromRhacsApi("/clusters"); the file is opened and the
\* header written only when the answer is not None
ListClusters ==
    /\ npc = "start"
    /\ \/ /\ ncall' = [endpoint |-> "/clusters", outcome |-> "raise"]
          /\ npc' = "crashed"
          /\ UNCHANGED <<nodeCsv, nclusters>>
       \/ /\ ncall' = [endpoint |-> "/clusters", outcome |-> "none"]
          /\ npc' = "done"
          /\ UNCHANGED <<nodeCsv, nclusters>>
       \/ \E cs \in ClusterLists :
            /\ ncall' = [endpoint |-> "/clusters", outcome |-> "ok"]
            /\ nodeCsv' = [open |-> TRUE, rows |-> <<NodeHeaderRow>>]
            /\ nclusters' = cs
            /\ npc' = "clusters"
    /\ UNCHANGED <<nlabel, nnodes, nnode, ncves, returned, nused, imageVars, ubiVars,
                   parseVars>>

\* One turn of "for cluster in clusters" up to the node loop: parse the name,
\* list the nodes.  The /nodes call is outside every try block.
NextCluster ==
    /\ npc = "clusters"
    /\ nclusters # <<>>
    /\ nclusters' = Tail(nclusters)
    /\ nlabel' = ParseClusterInfo(Bound(ClusterNames[Head(nclusters)]),
                                  ClusterNames[Head(nclusters)])
    /\ \/ \E o \in {"raise", "none"} :
            \* urlopen raises, or responseJson["nodes"] raises TypeError on None
            /\ ncall' = [endpoint |-> "/nodes", outcome |-> o]
            /\ npc' = "crashed"
            /\ UNCHANGED <<nnodes, nused>>
       \/ \E k \in 0..(MaxNodes - nused.nodes) :
            /\ ncall' = [endpoint |-> "/nodes", outcome |-> "ok"]
            /\ nnodes' = [j \in 1..k |-> nused.nodes + j]
            /\ nused' = [nused EXCEPT !.nodes = @ + k]
            /\ npc' = IF k = 0 THEN "clusters" ELSE "nodes"
    /\ UNCHANGED <<nnode, ncves, nodeCsv, returned, imageVars, ubiVars, parseVars>>

\* One turn of "for node in nodes" up to the CVE loop: the GraphQL query.
InspectNode ==
    /\ npc = "nodes"
    /\ nnode' = Head(nnodes)
    /\ nnodes' = Tail(nnodes)
    /\ \/ \E o \in {"raise", "none"} :
            \* caught by the except of the node, or skipped by "is not None"
            /\ ncall' = [endpoint |-> "graphql", outcome |-> o]
            /\ npc' = IF nnodes' = <<>> THEN "clusters" ELSE "nodes"
            /\ UNCHANGED <<ncves, returned, nused>>
       \/ \E cves \in SeqsUpTo(NodeVulns, MaxReturned - nused.cves) :
            /\ ncall' = [endpoint |-> "graphql", outcome |-> "ok"]
            /\ ncves' = cves
            /\ returned' = Append(returned, [label |-> nlabel, node |-> Head(nnodes),
                                             cves |-> cves])
            /\ nused' = [nused EXCEPT !.cves = @ + Len(cves)]
            /\ npc' = IF cves # <<>> THEN "rows"
                      ELSE IF nnodes' = <<>> THEN "clusters" ELSE "nodes"
    /\ UNCHANGED <<nclusters, nlabel, nodeCsv, imageVars, ubiVars, parseVars>>

\* One turn of "for cve in cves": the row is written and flushed, or building it
\* raises and the except of the node ends the node.
WriteRow ==
    /\ npc = "rows"
    /\ IF Head(ncves).wellFormed
       THEN /\ nodeCsv' = WriteRowAndFlush(nodeCsv, NodeRow(nlabel, nnode, Head(ncves)))
            /\ ncves' = Tail(ncves)
       ELSE /\ ncves' = <<>>
            /\ UNCHANGED nodeCsv
    /\ npc' = IF ncves' # <<>> THEN "rows"
              ELSE IF nnodes = <<>> THEN "clusters" ELSE "nodes"
    /\ UNCHANGED <<nclusters, nlabel, nnodes, nnode, ncall, returned, nused, imageVars,
                   ubiVars, parseVars>>

\* the cluster loop ends: the file is closed, "Successfully generated" printed
EndClusters ==
    /\ npc = "clusters"
    /\ nclusters = <<>>
    /\ npc' = "done"
    /\ UNCHANGED <<nclusters, nlabel, nnodes, nnode, ncves, nodeCsv, ncall, returned,
                   nused, imageVars, ubiVars, parseVars>>

InitNode ==
    /\ npc = "start"
    /\ nclusters = <<>>
    /\ nlabel = ParseClusterInfo(Unbound, <<>>)
    /\ nnodes = <<>>
    /\ nnode = 0
    /\ ncves = <<>>
    /\ nodeCsv = NoFile
    /\ ncall = [endpoint |-> "", outcome |-> ""]
    /\ returned = <<>>
    /\ nused = [nodes |-> 0, cves |-> 0]
    /\ ImageIdle /\ UbiIdle /\ ParseIdle

NextNode ==
    \/ ListClusters
    \/ NextCluster
    \/ InspectNode
    \/ WriteRow
    \/ EndClusters

SpecNode == InitNode /\ [][NextNode]_vars

\* ------------------------------------------------------------------ C5
\* C5: a failure of a call made for one node or one cluster, an exception or a
\* None result, never ends the run of the node pipeline.
C5_FailureIsolated ==
    ncall.endpoint \in {"/nodes", "graphql"} /\ ncall.outcome \in {"raise", "none"} =>
       npc # "crashed"

\* ------------------------------------------------------------------ C9
\* C9: a run of the node pipeline that ends normally has written the file with
\* the header as its first row, whatever /clusters returned.
C9_HeaderWritten ==
    npc = "done" => nodeCsv.open /\ nodeCsv.rows # <<>> /\ Head(nodeCsv.rows) = NodeHeaderRow

\* ------------------------------------------------------------------ C10
RECURSIVE WellFormedPrefix(_)
WellFormedPrefix(cves) ==
    IF cves = <<>> THEN <<>>
    ELSE IF ~Head(cves).wellFormed THEN <<>>
    ELSE <<Head(cves)>> \o WellFormedPrefix(Tail(cves))

RowsOf(answer, cves) ==
    [i \in 1..Len(cves) |-> NodeRow(answer.label, answer.node, cves[i])]

\* the rows of the answers k..Len(answers) that are in the set kept, in order
RECURSIVE RowsOfNodes(_, _, _)
RowsOfNodes(answers, kept, k) ==
    IF k > Len(answers) THEN <<>>
    ELSE (IF k \in kept THEN RowsOf(answers[k], answers[k].cves) ELSE <<>>)
         \o RowsOfNodes(answers, kept, k + 1)

\* the rows each answered node has got so far: those before its first
\* vulnerability whose row cannot be built; for the node whose CVE loop is
\* running, those of the vulnerabilities the loop has passed
RECURSIVE RowsSoFar(_, _)
RowsSoFar(answers, k) ==
    IF k > Len(answers) THEN <<>>
    ELSE RowsOf(answers[k],
                IF k = Len(answers) /\ npc = "rows"
                THEN SubSeq(answers[k].cves, 1, Len(answers[k].cves) - Len(ncves))
                ELSE WellFormedPrefix(answers[k].cves))
         \o RowsSoFar(answers, k + 1)

\* C10 (as stated): the data rows in the file are at every point a prefix of the
\* rows of all vulnerabilities returned, in cluster, node and CVE order, with the
\* rows of skipped nodes left out; at the end of the run they are that sequence.
C10_RowsOfWholeNodes ==
    nodeCsv.open =>
       /\ \E kept \in SUBSET (1..Len(returned)) :
             IsPrefix(Tail(nodeCsv.rows), RowsOfNodes(returned, kept, 1))
       /\ npc = "done" =>
             \E kept \in SUBSET (1..Len(returned)) :
                Tail(nodeCsv.rows) = RowsOfNodes(returned, kept, 1)

\* C10 (amended): at every point of a run the data rows in the file are, node
\* after node in the order the API returned them, the rows of each answered
\* node's vulnerabilities up to its first vulnerability whose row cannot be
\* built, in CVE-list order, none aggregated or re-sorted.
C10_StreamedRows ==
    /\ nodeCsv.open => nodeCsv.rows = <<NodeHeaderRow>> \o RowsSoFar(returned, 1)
    /\ ~nodeCsv.open => nodeCsv.rows = <<>>

\* A node was abandoned after its first row and the rows of the next node follow.
C10_Witness ==
    /\ Len(returned) = 2
    /\ Len(returned[1].cves) = 2
    /\ returned[1].cves[1].wellFormed
    /\ ~returned[1].cves[2].wellFormed
    /\ Len(nodeCsv.rows) = 3
    /\ nodeCsv.rows[2].cells.nodeName = returned[1].node
    /\ nodeCsv.rows[3].cells.nodeName = returned[2].node

\* ------------------------------------------------------------------ parser specification
\* The "Try to parse cluster info" block of either pipeline applied to one raw string.

\* image pipeline: clusterName is unbound (first deployment) or left by an earlier one
ParseImageLabel ==
    /\ ~parsed.done
    /\ \E before \in {Unbound, Bound(<<"1">>)} :
         parsed' = [done |-> TRUE, pipeline |-> "image", before |-> before,
                    label |-> ParseClusterInfo(before, raw)]
    /\ UNCHANGED <<raw, imageVars, ubiVars, nodeVars>>

\* node pipeline: clusterName starts as cluster["name"], the raw string itself
ParseNodeLabel ==
    /\ ~parsed.done
    /\ parsed' = [done |-> TRUE, pipeline |-> "node", before |-> Bound(raw),
                  label |-> ParseClusterInfo(Bound(raw), raw)]
    /\ UNCHANGED <<raw, imageVars, ubiVars, nodeVars>>


InitParse ==
    /\ raw \in SeqsUpTo(Chars, MaxLen)
    /\ parsed = [done |-> FALSE]
    /\ ImageIdle /\ UbiIdle /\ NodeIdle

NextParse == ParseImageLabel \/ ParseNodeLabel

SpecParse == InitParse /\ [][NextParse]_vars

\* ------------------------------------------------------------------ C3
\* the position after the longest run of letters and digits (or of separators)
\* that starts at position p of s
RECURSIVE RunEnd(_, _, _)
RunEnd(s, p, alnum) ==
    IF p <= Len(s) /\ IsAlnum(s[p]) = alnum THEN RunEnd(s, p + 1, alnum) ELSE p

\* s read as name, name-sep-env or name-sep-env-sep-rest
ExpectedLabel(s) ==
    LET e1 == RunEnd(s, 1, TRUE)
        m1 == RunEnd(s, e1, FALSE)
        e2 == RunEnd(s, m1, TRUE)
        m2 == RunEnd(s, e2, FALSE)
        no == [form |-> FALSE, name |-> <<>>, env |-> <<>>, rest |-> <<>>]
    IN  IF e1 = 1 THEN no
        ELSE IF e1 = Len(s) + 1
             THEN [form |-> TRUE, name |-> s, env |-> <<>>, rest |-> <<>>]
        ELSE IF e2 = m1 THEN no
        ELSE IF e2 = Len(s) + 1
             THEN [form |-> TRUE, name |-> SubSeq(s, 1, e1 - 1),
                   env |-> SubSeq(s, m1, Len(s)), rest |-> <<>>]
        ELSE [form |-> TRUE, name |-> SubSeq(s, 1, e1 - 1),
              env |-> SubSeq(s, m1, e2 - 1), rest |-> SubSeq(s, m2, Len(s))]

\* C3: for a cluster string of the form name, name-sep-env or
\* name-sep-env-sep-rest the parser returns (name, env, rest), rest verbatim to
\* the end of the string.
C3_ParserForms ==
    parsed.done /\ ExpectedLabel(raw).form =>
       /\ parsed.label.matched
       /\ parsed.label.clusterName = Bound(ExpectedLabel(raw).name)
       /\ parsed.label.clusterEnvironment = ExpectedLabel(raw).env
       /\ parsed.label.clusterDescriptor = ExpectedLabel(raw).rest

====
